---- MODULE Spec2Model ----
(***************************************************************************)
(* zkLogin session of squad_connect: the Services object (network, api     *)
(* key, client id, randomness, ephemeral public key, max epoch, nonce),    *)
(* the SquardConnect wrapper (jwt), the file keystore, and the requests    *)
(* each operation sends to the Enoki oracle.                               *)
(*                                                                         *)
(* Strings that are built, encoded or parsed are sequences of one-         *)
(* character strings, so that percent-encoding, JSON quoting and URL       *)
(* splitting are computed character by character as the libraries do.      *)
(***************************************************************************)
EXTENDS Integers, Sequences, FiniteSets, TLC

(***************************************************************************)
(* Character-level helpers                                                 *)
(***************************************************************************)

\* The empty string: String::from("") / String::new().
EmptyStr == <<>>

\* Index of the first occurrence of character c in s, 0 if none (str::find).
Find(s, c) ==
    LET hits == {i \in 1..Len(s) : s[i] = c}
    IN  IF hits = {} THEN 0 ELSE CHOOSE i \in hits : \A j \in hits : i <= j

\* s from index i to the end.
From(s, i) == SubSeq(s, i, Len(s))

RECURSIVE Split(_, _)
\* s split on every occurrence of the character c (str::split).
Split(s, c) ==
    LET i == Find(s, c)
    IN  IF i = 0 THEN <<s>>
        ELSE <<SubSeq(s, 1, i - 1)>> \o Split(From(s, i + 1), c)

RECURSIVE Flatten(_)
\* Concatenation of a sequence of strings.
Flatten(ss) ==
    IF ss = <<>> THEN <<>> ELSE Head(ss) \o Flatten(Tail(ss))

RECURSIVE JoinWith(_, _)
\* The strings of ss joined by the character c.
JoinWith(ss, c) ==
    IF ss = <<>> THEN <<>>
    ELSE IF Len(ss) = 1 THEN ss[1]
    ELSE ss[1] \o <<c>> \o JoinWith(Tail(ss), c)

\* Whether sub occurs in s as a contiguous substring (str::contains).
Contains(s, sub) ==
    \E i \in 1..(Len(s) - Len(sub) + 1) : SubSeq(s, i, i + Len(sub) - 1) = sub

Letters ==
    {"a", "b", "c", "d", "e", "f", "g", "h", "i", "j", "k", "l", "m", "n",
     "o", "p", "q", "r", "s", "t", "u", "v", "w", "x", "y", "z",
     "A", "B", "C", "D", "E", "F", "K"}

Digits == {"0", "1", "2", "3", "4", "5", "6", "7", "8", "9"}

DigitChar(d) == <<"0", "1", "2", "3", "4", "5", "6", "7", "8", "9">>[d + 1]

RECURSIVE Decimal(_)
\* u64 formatted in decimal (Display for integers).
Decimal(n) ==
    IF n < 10 THEN <<DigitChar(n)>>
    ELSE Decimal(n \div 10) \o <<DigitChar(n % 10)>>

(***************************************************************************)
(* application/x-www-form-urlencoded, as the url crate's query_pairs_mut   *)
(* (serializer) and query_pairs (parser) implement it.                     *)
(***************************************************************************)

\* Bytes the form serializer leaves alone: ASCII alphanumerics and * - . _
FormUnreserved == Letters \cup Digits \cup {"*", "-", ".", "_"}

\* %XX escapes of the other characters of the model's alphabet.
PercentCode(c) ==
    CASE c = "&"  -> <<"%", "2", "6">>
      [] c = "="  -> <<"%", "3", "D">>
      [] c = "#"  -> <<"%", "2", "3">>
      [] c = "%"  -> <<"%", "2", "5">>
      [] c = "+"  -> <<"%", "2", "B">>
      [] c = "\"" -> <<"%", "2", "2">>
      [] c = ":"  -> <<"%", "3", "A">>
      [] c = "/"  -> <<"%", "2", "F">>
      [] c = "?"  -> <<"%", "3", "F">>
      [] c = "\\" -> <<"%", "5", "C">>
      [] c = "\n" -> <<"%", "0", "A">>
      [] OTHER    -> <<"%", "0", "0">>

PercentEscaped == {"&", "=", "#", "%", "+", "\"", ":", "/", "?", "\\", "\n"}

\* A serializer that writes every character as it is (no escaping).
FormEncodeCharRaw(c) == <<c>>

\* form_urlencoded::byte_serialize of one character: space becomes '+',
\* unreserved characters stay, everything else is %XX.
FormEncodeChar(c) ==
    IF c = " " THEN <<"+">>
    ELSE IF c \in FormUnreserved THEN <<c>>
    ELSE PercentCode(c)

FormEncode(s) == Flatten([i \in 1..Len(s) |-> FormEncodeChar(s[i])])

RECURSIVE FormDecodeFrom(_, _)
\* form_urlencoded decode: '+' becomes space, %XX with two hex digits
\* becomes the byte, a '%' not followed by two hex digits stays.
FormDecodeFrom(s, i) ==
    IF i > Len(s) THEN <<>>
    ELSE IF s[i] = "+" THEN <<" ">> \o FormDecodeFrom(s, i + 1)
    ELSE IF /\ s[i] = "%"
            /\ i + 2 <= Len(s)
            /\ \E c \in PercentEscaped : PercentCode(c) = SubSeq(s, i, i + 2)
         THEN <<CHOOSE c \in PercentEscaped : PercentCode(c) = SubSeq(s, i, i + 2)>>
              \o FormDecodeFrom(s, i + 3)
    ELSE <<s[i]>> \o FormDecodeFrom(s, i + 1)

FormDecode(s) == FormDecodeFrom(s, 1)

\* One name=value segment split at its first '=' and decoded; a segment
\* without '=' has an empty value.
ParsePair(seg) ==
    LET i == Find(seg, "=")
    IN  IF i = 0 THEN <<FormDecode(seg), EmptyStr>>
        ELSE <<FormDecode(SubSeq(seg, 1, i - 1)), FormDecode(From(seg, i + 1))>>

\* form_urlencoded::parse: segments between '&', empty segments skipped.
ParseQuery(q) ==
    LET segs == SelectSeq(Split(q, "&"), LAMBDA seg : seg # EmptyStr)
    IN  [i \in 1..Len(segs) |-> ParsePair(segs[i])]

\* Serializer::append_pair for every pair, joined with '&'.
SerializePairs(pairs) ==
    JoinWith([i \in 1..Len(pairs) |->
                 FormEncode(pairs[i][1]) \o <<"=">> \o FormEncode(pairs[i][2])],
             "&")

(***************************************************************************)
(* url::Url::parse, as far as the operations use it: the scheme check that *)
(* makes parsing fail, and the split into query and fragment.              *)
(***************************************************************************)

None == [none |-> TRUE]

Some(v) == [some |-> v]

IsSome(o) == "some" \in DOMAIN o

\* A string parses as an absolute URL when it starts with a scheme: letters
\* followed by ':' (otherwise ParseError::RelativeUrlWithoutBase).
HasScheme(s) ==
    LET i == Find(s, ":")
    IN  /\ i > 1
        /\ \A j \in 1..(i - 1) : s[j] \in Letters

\* The part after the first '#', if any.
UrlFragment(s) ==
    LET f == Find(s, "#")
    IN  IF f = 0 THEN None ELSE Some(From(s, f + 1))

\* Url::query: the part between the first '?' and the fragment, if any.
\* The fragment (after '#') is never part of it.
UrlQuery(s) ==
    LET f == Find(s, "#")
        pre == IF f = 0 THEN s ELSE SubSeq(s, 1, f - 1)
        q == Find(pre, "?")
    IN  IF q = 0 THEN None ELSE Some(From(pre, q + 1))

\* Url::query_pairs: the decoded pairs of the query, none without a query.
QueryPairs(s) ==
    LET q == UrlQuery(s)
    IN  IF IsSome(q) THEN ParseQuery(q.some) ELSE <<>>

\* .find(|(key, _)| key == name).map(|(_, value)| value)
FindPair(pairs, name) ==
    LET hits == SelectSeq(pairs, LAMBDA p : p[1] = name)
    IN  IF hits = <<>> THEN None ELSE Some(hits[1][2])

(***************************************************************************)
(* serde_json for the caller's state type T = String                       *)
(***************************************************************************)

Ok(v) == [ok |-> v]

Err(kind, detail) == [err |-> kind, detail |-> detail]

IsOk(r) == "ok" \in DOMAIN r

IsErr(r) == "err" \in DOMAIN r

\* Whether r is an error of the given ServiceError variant.
IsErrOf(r, kind) == IsErr(r) /\ r.err = kind

JsonWhitespace == {" ", "\n"}

\* format_escaped_str_contents: '"' and '\' get a backslash, a line feed
\* becomes the two characters \n.
JsonEscapeChar(c) ==
    CASE c = "\"" -> <<"\\", "\"">>
      [] c = "\\" -> <<"\\", "\\">>
      [] c = "\n" -> <<"\\", "n">>
      [] OTHER    -> <<c>>

\* serde_json::to_string(&String): the escaped contents between quotes.
JsonToString(v) ==
    <<"\"">> \o Flatten([i \in 1..Len(v) |-> JsonEscapeChar(v[i])]) \o <<"\"">>

RECURSIVE JsonScan(_, _, _)
\* The string literal's contents from index i on, up to its closing quote:
\* [end |-> index of the closing quote, val |-> the unescaped contents];
\* end = 0 when the literal is invalid (no closing quote, a raw control
\* character, an unknown escape).
JsonScan(s, i, acc) ==
    IF i > Len(s) THEN [end |-> 0, val |-> acc]
    ELSE IF s[i] = "\"" THEN [end |-> i, val |-> acc]
    ELSE IF s[i] = "\n" THEN [end |-> 0, val |-> acc]
    ELSE IF s[i] = "\\"
         THEN IF i + 1 > Len(s) THEN [end |-> 0, val |-> acc]
              ELSE IF s[i + 1] \in {"\"", "\\", "/"}
                   THEN JsonScan(s, i + 2, acc \o <<s[i + 1]>>)
              ELSE IF s[i + 1] = "n" THEN JsonScan(s, i + 2, acc \o <<"\n">>)
              ELSE [end |-> 0, val |-> acc]
    ELSE JsonScan(s, i + 1, acc \o <<s[i]>>)

RECURSIVE SkipWhitespace(_, _)
\* The first index at or after i that holds no JSON whitespace.
SkipWhitespace(s, i) ==
    IF i <= Len(s) /\ s[i] \in JsonWhitespace THEN SkipWhitespace(s, i + 1) ELSE i

\* serde_json::from_str::<String>: optional whitespace, one string literal,
\* optional whitespace, nothing else.
JsonFromStr(s) ==
    LET i == SkipWhitespace(s, 1)
    IN  IF i > Len(s) \/ s[i] # "\"" THEN Err("Json", "expected a string")
        ELSE LET lit == JsonScan(s, i + 1, <<>>)
             IN  IF lit.end = 0 THEN Err("Json", "invalid string literal")
                 ELSE IF SkipWhitespace(s, lit.end + 1) <= Len(s)
                      THEN Err("Json", "trailing characters")
                 ELSE Ok(lit.val)

(***************************************************************************)
(* Services: the OAuth URL builder and the callback parsers                *)
(***************************************************************************)

OAuthBase ==
    <<"h", "t", "t", "p", "s", ":", "/", "/", "a", "c", "c", "o", "u", "n",
      "t", "s", ".", "g", "o", "o", "g", "l", "e", ".", "c", "o", "m", "/",
      "o", "/", "o", "a", "u", "t", "h", "2", "/", "v", "2", "/", "a", "u",
      "t", "h">>

P_client_id == <<"c", "l", "i", "e", "n", "t", "_", "i", "d">>

P_response_type == <<"r", "e", "s", "p", "o", "n", "s", "e", "_", "t", "y", "p", "e">>

P_id_token == <<"i", "d", "_", "t", "o", "k", "e", "n">>

P_redirect_uri == <<"r", "e", "d", "i", "r", "e", "c", "t", "_", "u", "r", "i">>

P_scope == <<"s", "c", "o", "p", "e">>

P_openid == <<"o", "p", "e", "n", "i", "d">>

P_nonce == <<"n", "o", "n", "c", "e">>

P_state == <<"s", "t", "a", "t", "e">>

\* The pairs get_oauth_url appends, in order; state (an Option) last, as
\* its JSON serialization, only when it is Some.
OauthPairs(clientId, sessionNonce, redirectUrl, state) ==
    <<<<P_client_id, clientId>>,
      <<P_response_type, P_id_token>>,
      <<P_redirect_uri, redirectUrl>>,
      <<P_scope, P_openid>>,
      <<P_nonce, sessionNonce>>>>
    \o (IF IsSome(state) THEN <<<<P_state, JsonToString(state.some)>>>> ELSE <<>>)

\* Services::get_oauth_url: the constant base URL parses, serializing a
\* String never fails, so the result is always Ok; the nonce is not
\* inspected before it is appended.
GetOauthUrl(clientId, sessionNonce, redirectUrl, state) ==
    Ok(OAuthBase \o <<"?">>
       \o SerializePairs(OauthPairs(clientId, sessionNonce, redirectUrl, state)))

\* Services::extract_jwt_from_callback
ExtractJwtFromCallback(callbackUrl) ==
    IF ~HasScheme(callbackUrl)
    THEN Err("JwtExtraction", "Failed to parse callback URL")
    ELSE LET idToken == FindPair(QueryPairs(callbackUrl), P_id_token)
         IN  IF IsSome(idToken) THEN Ok(idToken.some)
             ELSE Err("JwtExtraction", "No id_token found in callback URL")

\* Services::extract_state_from_callback::<String>
ExtractStateFromCallback(callbackUrl) ==
    IF ~HasScheme(callbackUrl)
    THEN Err("JwtExtraction", "Failed to parse callback URL")
    ELSE LET stateStr == FindPair(QueryPairs(callbackUrl), P_state)
         IN  IF IsSome(stateStr)
             THEN LET parsed == JsonFromStr(stateStr.some)
                  IN  IF IsOk(parsed) THEN Ok(Some(parsed.ok))
                      ELSE Err("JwtExtraction", "Failed to deserialize state")
             ELSE Ok(None)

(***************************************************************************)
(* Bounds and input sets                                                   *)
(***************************************************************************)

\* How many ephemeral keypairs the generator yields in one run; each
\* create_zkp_payload that reaches the keystore consumes one.
NumKeys == 2

\* create_zkp_payload asks for this many additional epochs.
AdditionalEpochs == 2

Keys == 1..NumKeys

\* Epochs the oracle may be in when a nonce is requested.
Epochs == {10, 11}

\* SuiKeyPair::public().encode_base64() of key k.
PublicBase64(k) == <<"K">> \o Decimal(k)

PubKeys == {PublicBase64(k) : k \in Keys}

\* SuiKeyPair::encode_base64() of key k: the private key material, which
\* add_key hands to the keystore.
PrivateBase64(k) == <<"S">> \o Decimal(k)

\* The keypair itself encoded, in place of its public half.
EncodeKeypairItself(k) == PrivateBase64(k)

\* ephemeral_key_pair.public().encode_base64(): what create_zkp_payload puts
\* into the nonce request and into the session.
EphemeralPublicKey(k) == PublicBase64(k)

R1 == <<"r", "1">>

R2 == <<"r", "2">>

\* Randomness values: the oracle hands out r1; a caller may also pass r2 to
\* set_zk_proof_params.
Randoms == {R1, R2}

OracleRandoms == {R1}

MaxEpochs == {e + AdditionalEpochs : e \in Epochs}

Networks == {"Devnet", "Testnet", "Mainnet"}

\* impl fmt::Display for Network
NetworkToString(n) ==
    CASE n = "Devnet"  -> <<"d", "e", "v", "n", "e", "t">>
      [] n = "Testnet" -> <<"t", "e", "s", "t", "n", "e", "t">>
      [] n = "Mainnet" -> <<"m", "a", "i", "n", "n", "e", "t">>

GoodApiKey == <<"k", "e", "y">>

\* An api key holding a line feed, which no HTTP header value may hold.
BadApiKey == <<"k", "\n">>

ApiKeys == {GoodApiKey, BadApiKey}

ClientId == <<"c", "i", "d">>

Tok1 == <<"t", "o", "k", "1">>

\* A token with a line feed in it (what %0A in a callback decodes to).
TokLf == <<"t", "\n">>

Tokens == {Tok1, TokLf}

Abc == <<"a", "b", "c">>

\* A caller state with characters that need escaping in JSON and in a query.
Tricky == <<"a", " ", "&", "\"", "\\">>

StateValues == {Abc, Tricky}

LocalCb ==
    <<"h", "t", "t", "p", ":", "/", "/", "l", "o", "c", "a", "l", "h", "o",
      "s", "t", "/", "c", "b">>

\* A redirect URL that itself carries a query with a nonce parameter.
QueryCb == LocalCb \o <<"?", "x", "=", "1", "&", "n", "o", "n", "c", "e", "=", "z">>

RedirectUrls == {LocalCb, QueryCb}

\* Keystore paths: callers create the session's key under CreatePaths and
\* may hand any of Paths to sign_transaction.
Paths == {"ks1", "ks2"}

CreatePaths == {"ks1"}

P_hash_id_token == <<"#">> \o <<"i", "d", "_", "t", "o", "k", "e", "n", "=">>

P_amp_state == <<"&", "s", "t", "a", "t", "e", "=">>

\* redirect#id_token=T&state=S: the callback of an implicit-flow provider.
FragmentCallback(redirect, tok, st) ==
    redirect \o P_hash_id_token \o tok \o P_amp_state \o st

\* redirect?id_token=T&state=S: the same parameters in the query.
QueryCallback(redirect, tok, st) ==
    redirect \o <<"?">> \o Tail(P_hash_id_token) \o tok \o P_amp_state \o st

\* redirect#id_token=T and redirect?id_token=T: no state parameter.
FragmentCallbackNoState(redirect, tok) == redirect \o P_hash_id_token \o tok

QueryCallbackNoState(redirect, tok) == redirect \o <<"?">> \o Tail(P_hash_id_token) \o tok

\* redirect#state=S and redirect?state=S: no id_token parameter.
FragmentCallbackNoToken(redirect, st) == redirect \o <<"#">> \o Tail(P_amp_state) \o st

QueryCallbackNoToken(redirect, st) == redirect \o <<"?">> \o Tail(P_amp_state) \o st

\* A callback without a scheme, which Url::parse rejects.
SchemelessCallback == FragmentCallback(<<"c", "b">>, <<"t">>, <<"s">>)

(***************************************************************************)
(* The Enoki oracle, as seen from the client                               *)
(***************************************************************************)

\* The keypair a second session generates, distinct from the first session's.
PeerKey == NumKeys + 1

\* The keypairs whose public keys reach the oracle.
OracleKeys == Keys \cup {PeerKey}

KeyIndex(pk) == CHOOSE k \in OracleKeys : PublicBase64(k) = pk

RandIndex(r) == IF r = R1 THEN 1 ELSE 2

MaxEpochIndex(me) == Cardinality({m \in MaxEpochs : m < me})

\* The nonce the oracle derives from (ephemeral public key, max epoch,
\* randomness): a commitment, one distinct value per tuple ("n1" for key 1,
\* the first max epoch and randomness r1).
Commit(pk, me, r) ==
    IF pk \in {PublicBase64(k) : k \in OracleKeys} /\ me \in MaxEpochs /\ r \in Randoms
    THEN <<"n">> \o Decimal(RandIndex(r)
                            + Cardinality(Randoms) * (MaxEpochIndex(me)
                                            + Cardinality(MaxEpochs) * (KeyIndex(pk) - 1)))
    ELSE <<"n", "0">>

TransportFailure == [transport |-> "failed"]

Http(status, body) == [status |-> status, body |-> body]

\* A JSON body of the shape {"data": <payload>}.
Envelope(d) == [data |-> d]

\* A body that is not of that shape (an error document).
ErrorBody == [errors |-> "error"]

IsTransportFailure(resp) == "transport" \in DOMAIN resp

\* A check that only takes client errors (4xx) for failures.
IsSuccessNotClientError(status) == status < 400 \/ status > 499

\* reqwest's StatusCode::is_success
IsSuccess(status) == status >= 200 /\ status <= 299

\* response.json::<ResponseData<P>>(): Ok only for an envelope.
ParsesAsEnvelope(body) == "data" \in DOMAIN body

\* POST /nonce
NonceData(body, e, r) ==
    [nonce |-> Commit(body.ephemeral_public_key, e + body.additional_epochs, r),
     randomness |-> r,
     epoch |-> e,
     max_epoch |-> e + body.additional_epochs,
     estimated_expiration |-> 999]

NonceResponses(body) ==
    {TransportFailure, Http(500, ErrorBody), Http(200, ErrorBody)}
    \cup {Http(200, Envelope(NonceData(body, e, r))) : e \in Epochs, r \in OracleRandoms}

(***************************************************************************)
(* State                                                                   *)
(***************************************************************************)

VARIABLES
    network,      \* Services.network
    api_key,      \* Services.api_key
    client_id,    \* Services.client_id
    randomness,   \* Services.randomness
    public_key,   \* Services.public_key
    max_epoch,    \* Services.max_epoch
    nonce,        \* Services.nonce
    jwt,          \* SquardConnect.jwt
    keystore,     \* the keystore file at each path: the keys it holds
    lastOp,       \* the last operation: its name, arguments and result
    sent,         \* the requests the last operation sent, with their responses
    urlNonce,     \* the nonce carried by the last authorization URL returned
    peer          \* a second session: its proof parameters, and where its
                  \* create_zkp_payload stands (the keystore it has opened)

session == <<network, api_key, client_id, randomness, public_key, max_epoch, nonce>>

vars == <<network, api_key, client_id, randomness, public_key, max_epoch, nonce,
          jwt, keystore, lastOp, sent, urlNonce, peer>>

\* The (network, api key) pairs sessions are constructed with.
ConstructorArgs == {<<"Testnet", GoodApiKey>>, <<"Mainnet", BadApiKey>>}

\* Services::new for the second session, which has not started an operation.
PeerNew ==
    [randomness |-> EmptyStr, public_key |-> EmptyStr, max_epoch |-> 0,
     nonce |-> EmptyStr, pc |-> "idle", path |-> "ks1", loaded |-> {}, stored |-> FALSE]

\* Services::new and SquardConnect::new
Init ==
    /\ \E args \in ConstructorArgs :
          /\ network = args[1]
          /\ api_key = args[2]
    /\ client_id = ClientId
    /\ randomness = EmptyStr
    /\ public_key = EmptyStr
    /\ max_epoch = 0
    /\ nonce = EmptyStr
    /\ jwt = EmptyStr
    /\ keystore = [p \in Paths |-> {}]
    /\ lastOp = [name |-> "new"]
    /\ sent = <<>>
    /\ urlNonce = None
    /\ peer = PeerNew

\* HeaderValue::from_str / str::parse::<HeaderValue>: no control characters.
HeaderValid(s) == \A i \in 1..Len(s) : s[i] # "\n"

\* The outcome of an operation that panicked (unwrap on an Err).
Panic == [panic |-> TRUE]

IsPanic(r) == "panic" \in DOMAIN r

\* A keypair is fresh when no keystore holds it and the session does not use it.
FreshKeys ==
    {k \in Keys : /\ \A p \in Paths : k \notin keystore[p]
                  /\ PublicBase64(k) # public_key}

\* AccountKeyPair::generate: the next fresh keypair.
GenerateKey == CHOOSE k \in FreshKeys : \A j \in FreshKeys : k <= j

\* NoncePayload::from((network, public key, 2))
NoncePayload(net, pk, add) ==
    [network |-> net, ephemeral_public_key |-> pk, additional_epochs |-> add]

\* The request sent again after the first attempt.
SendRetried(req) == <<req, req>>

\* Client::new()...send().await: the request goes out once, whatever the
\* outcome; what is appended to the log of requests sent.
SendOnce(req) == <<req>>

\* The request create_zkp_payload sends to the nonce endpoint.
NonceRequest(body, resp) ==
    [endpoint |-> "Nonce", auth |-> api_key, body |-> body, response |-> resp]

\* The assignments with the response's epoch taken for its max epoch.
StoreNonceDataEpoch(data, pk) ==
    /\ randomness' = data.randomness
    /\ public_key' = pk
    /\ max_epoch' = data.epoch
    /\ nonce' = data.nonce

\* The four assignments that end create_zkp_payload.
StoreNonceData(data, pk) ==
    /\ randomness' = data.randomness
    /\ public_key' = pk
    /\ max_epoch' = data.max_epoch
    /\ nonce' = data.nonce

\* The public key assigned before the request is sent, so that an error
\* return leaves it changed.
StorePublicKeyEarly(pk) ==
    /\ public_key' = pk
    /\ UNCHANGED <<randomness, max_epoch, nonce>>

\* An error return of create_zkp_payload after the request was sent (the ?
\* on send and on json): it precedes the four assignments, which are not made.
ReturnBeforeStore(pk) == UNCHANGED <<randomness, public_key, max_epoch, nonce>>

\* The keystore steps with a failing add_key ignored.
KeystoreStepsAddSkipped(storeFails) ==
    IF storeFails = "open" THEN Err("InvalidResponse", "Failed to create key store")
    ELSE Ok("unit")

\* The keystore steps with their errors dropped instead of returned.
KeystoreStepsSwallowed(storeFails) == Ok("unit")

\* FileBasedKeystore::new(&path) and add_key, each followed by map_err and ?:
\* the error create_zkp_payload returns when one of them fails.
KeystoreSteps(storeFails) ==
    IF storeFails = "open" THEN Err("InvalidResponse", "Failed to create key store")
    ELSE IF storeFails = "add" THEN Err("InvalidResponse", "Failed to add key to key store")
    ELSE Ok("unit")

\* Services::create_zkp_payload(path)
CreateZkpPayload ==
    \E path \in CreatePaths, storeFails \in {"no", "open", "add"} :
        /\ FreshKeys # {}
        /\ LET k == GenerateKey
               pk == EphemeralPublicKey(k)
               body == NoncePayload(NetworkToString(network), pk, AdditionalEpochs)
               call == [name |-> "create_zkp_payload", path |-> path,
                        key |-> IF storeFails = "no" THEN k ELSE 0,
                        store_failure |-> storeFails]
               stored == KeystoreSteps(storeFails)
           IN  IF IsErr(stored)
               THEN /\ lastOp' = call @@ [result |-> stored]
                    /\ sent' = <<>>
                    /\ UNCHANGED <<session, peer, jwt, keystore, urlNonce>>
               ELSE /\ keystore' = IF storeFails = "no"
                                   THEN [keystore EXCEPT ![path] = @ \cup {k}]
                                   ELSE keystore
                    /\ IF ~HeaderValid(api_key)
                       THEN /\ lastOp' = call @@ [result |-> Panic]
                            /\ sent' = <<>>
                            /\ UNCHANGED <<session, peer, jwt, urlNonce>>
                       ELSE \E resp \in NonceResponses(body) :
                            /\ sent' = SendOnce(NonceRequest(body, resp))
                            /\ UNCHANGED <<network, api_key, client_id, peer, jwt, urlNonce>>
                            /\ IF IsTransportFailure(resp)
                               THEN /\ lastOp' = call @@ [result |-> Err("Network", "Failed to send request")]
                                    /\ ReturnBeforeStore(pk)
                               ELSE IF ~ParsesAsEnvelope(resp.body)
                               THEN /\ lastOp' = call @@ [result |-> Err("JwtFormat", "Failed json parse")]
                                    /\ ReturnBeforeStore(pk)
                               ELSE /\ lastOp' = call @@ [result |-> Ok("unit")]
                                    /\ StoreNonceData(resp.body.data, pk)

\* The (randomness, public key, max epoch) triples callers pass to
\* set_zk_proof_params: restoring an issued tuple, and altering its
\* randomness or its max epoch.
SetParamsInputs ==
    {<<R1, PublicBase64(1), 12>>, <<R2, PublicBase64(1), 12>>, <<R1, PublicBase64(1), 13>>}

\* Services::set_zk_proof_params assigns three of the fields; nonce is not
\* among them.
SetZkProofParamsFields(r, pk, me) ==
    /\ randomness' = r
    /\ public_key' = pk
    /\ max_epoch' = me
    /\ nonce' = nonce

\* Services::set_zk_proof_params(randomness, public_key, max_epoch)
SetZkProofParams ==
    \E args \in SetParamsInputs :
      LET r == args[1]
          pk == args[2]
          me == args[3]
      IN
        /\ SetZkProofParamsFields(r, pk, me)
        /\ lastOp' = [name |-> "set_zk_proof_params", randomness |-> r,
                      public_key |-> pk, max_epoch |-> me, result |-> "unit"]
        /\ sent' = <<>>
        /\ UNCHANGED <<network, api_key, client_id, peer, jwt, keystore, urlNonce>>

\* The fields in another order: (public_key, randomness, max_epoch).
ZkProofParamsSwapped == <<public_key, randomness, max_epoch>>

\* The tuple Services::get_zk_proof_params returns.
ZkProofParams == <<randomness, public_key, max_epoch>>

\* Services::get_zk_proof_params()
GetZkProofParams ==
    /\ lastOp' = [name |-> "get_zk_proof_params", result |-> ZkProofParams]
    /\ sent' = <<>>
    /\ UNCHANGED <<session, peer, jwt, keystore, urlNonce>>

\* Services::get_oauth_url(redirect_url, state), for the given inputs.
GetOauthUrlFor(redirects, states) ==
    \E redirect \in redirects, state \in states :
        LET res == GetOauthUrl(client_id, nonce, redirect, state)
        IN  /\ lastOp' = [name |-> "get_oauth_url", redirect_url |-> redirect,
                          state |-> state, result |-> res]
            /\ urlNonce' = IF IsOk(res) THEN FindPair(QueryPairs(res.ok), P_nonce)
                           ELSE urlNonce
            /\ sent' = <<>>
            /\ UNCHANGED <<session, peer, jwt, keystore>>

\* The extraction with the token it found kept as the session's token.
ExtractJwtAndStoreFor(callbacks) ==
    \E cb \in callbacks :
        LET res == ExtractJwtFromCallback(cb)
        IN  /\ lastOp' = [name |-> "extract_jwt_from_callback", callback_url |-> cb,
                          result |-> res]
            /\ jwt' = IF IsOk(res) THEN res.ok ELSE jwt
            /\ sent' = <<>>
            /\ UNCHANGED <<session, peer, keystore, urlNonce>>

\* Services::extract_jwt_from_callback(callback_url), for the given inputs.
ExtractJwtFor(callbacks) ==
    \E cb \in callbacks :
        /\ lastOp' = [name |-> "extract_jwt_from_callback", callback_url |-> cb,
                      result |-> ExtractJwtFromCallback(cb)]
        /\ sent' = <<>>
        /\ UNCHANGED <<session, peer, jwt, keystore, urlNonce>>

\* Services::extract_state_from_callback(callback_url), for the given inputs.
ExtractStateFor(callbacks) ==
    \E cb \in callbacks :
        /\ lastOp' = [name |-> "extract_state_from_callback", callback_url |-> cb,
                      result |-> ExtractStateFromCallback(cb)]
        /\ sent' = <<>>
        /\ UNCHANGED <<session, peer, jwt, keystore, urlNonce>>

\* set_jwt that keeps a token once one is stored.
SetJwtIfUnset ==
    \E j \in Tokens :
        /\ jwt' = IF jwt = EmptyStr THEN j ELSE jwt
        /\ lastOp' = [name |-> "set_jwt", jwt |-> j, result |-> "unit"]
        /\ sent' = <<>>
        /\ UNCHANGED <<session, peer, keystore, urlNonce>>

\* SquardConnect::set_jwt(jwt)
SetJwt ==
    \E j \in Tokens :
        /\ jwt' = j
        /\ lastOp' = [name |-> "set_jwt", jwt |-> j, result |-> "unit"]
        /\ sent' = <<>>
        /\ UNCHANGED <<session, peer, keystore, urlNonce>>

\* ZKPPayload::from((network, public key, max epoch, randomness))
ZKPPayload(net, pk, me, r) ==
    [network |-> net, ephemeral_public_key |-> pk, max_epoch |-> me, randomness |-> r]

\* The proof the oracle returns: bound to the token and the submitted tuple.
ZkLoginInputs(j, body) == [proof_of |-> j, bound_to |-> body]

\* POST /zkp
ZkpResponses(j, body) ==
    {TransportFailure, Http(500, ErrorBody), Http(200, ErrorBody),
     Http(200, Envelope(ZkLoginInputs(j, body))),
     Http(500, Envelope(ZkLoginInputs(j, body)))}

\* The handling with the status check left out, as create_zkp_payload has it.
HandleResponseNoStatus(resp) ==
    IF IsTransportFailure(resp) THEN Err("Network", "Failed to send request")
    ELSE IF ~ParsesAsEnvelope(resp.body) THEN Err("JwtFormat", "Failed json parse")
    ELSE Ok(resp.body.data)

\* The handling with the parse failure reported under the transport's kind.
HandleResponseParseAsNetwork(resp) ==
    IF IsTransportFailure(resp) THEN Err("Network", "Failed to send request")
    ELSE IF ~IsSuccess(resp.status)
         THEN Err("Network", [status |-> resp.status, body |-> resp.body])
    ELSE IF ~ParsesAsEnvelope(resp.body) THEN Err("Network", "Failed json parse")
    ELSE Ok(resp.body.data)

\* What zk_proof, get_account and the sponsor calls make of a response:
\* transport failure and non-success status are Network errors, a body that
\* is not an envelope is a JwtFormat error, otherwise the payload.
HandleResponse(resp) ==
    IF IsTransportFailure(resp) THEN Err("Network", "Failed to send request")
    ELSE IF ~IsSuccess(resp.status)
         THEN Err("Network", [status |-> resp.status, body |-> resp.body])
    ELSE IF ~ParsesAsEnvelope(resp.body) THEN Err("JwtFormat", "Failed json parse")
    ELSE Ok(resp.body.data)

\* Services::zk_proof(jwt), called under the given name.
ZkProofCall(name, j) ==
    /\ UNCHANGED <<session, peer, jwt, keystore, urlNonce>>
    /\ IF ~HeaderValid(api_key) \/ ~HeaderValid(j)
       THEN /\ lastOp' = [name |-> name, jwt |-> j, result |-> Panic]
            /\ sent' = <<>>
       ELSE LET body == ZKPPayload(NetworkToString(network), public_key, max_epoch, randomness)
            IN  \E resp \in ZkpResponses(j, body) :
                    /\ sent' = SendOnce([endpoint |-> "ZkProof", auth |-> api_key,
                                           jwt |-> j, body |-> body, response |-> resp])
                    /\ lastOp' = [name |-> name, jwt |-> j, result |-> HandleResponse(resp)]

ZkProof == \E j \in Tokens : ZkProofCall("zk_proof", j)

\* SquardConnect::recover_seed_address()
RecoverSeedAddress == ZkProofCall("recover_seed_address", jwt)

\* The public key of a zkLogin account, which no keystore holds.
ZkLoginPublicKey == <<"Z", "K">>

\* AccountResponse values: the account the oracle resolves a token to, and
\* one naming the ephemeral key 1 as its public key.
ZkAccount == [salt |-> "salt", address |-> "0xzk", public_key |-> ZkLoginPublicKey]

EphemeralAccount == [salt |-> "salt", address |-> "0xk1", public_key |-> PublicBase64(1)]

\* An account whose public key and address do not parse.
BadAccount == [salt |-> "salt", address |-> "bad", public_key |-> <<"?">>]

\* GET /zklogin (account)
AccountResponses ==
    {TransportFailure, Http(500, ErrorBody), Http(200, ErrorBody),
     Http(200, Envelope(ZkAccount)), Http(500, Envelope(ZkAccount))}

\* Services::get_account(jwt), called under the given name.
GetAccountCall(name, j) ==
    /\ UNCHANGED <<session, peer, jwt, keystore, urlNonce>>
    /\ IF ~HeaderValid(api_key) \/ ~HeaderValid(j)
       THEN /\ lastOp' = [name |-> name, jwt |-> j, result |-> Panic]
            /\ sent' = <<>>
       ELSE \E resp \in AccountResponses :
                /\ sent' = SendOnce([endpoint |-> "Address", auth |-> api_key, jwt |-> j,
                                       response |-> resp])
                /\ lastOp' = [name |-> name, jwt |-> j, result |-> HandleResponse(resp)]

GetAccount == \E j \in Tokens : GetAccountCall("get_account", j)

\* SquardConnect::get_address()
GetAddress == GetAccountCall("get_address", jwt)

\* SquardConnect::get_signer: PublicKey::from_str(account.public_key), then
\* the address of that key (here: the key itself names the address).
GetSigner(account) ==
    IF account.public_key \in PubKeys \cup {ZkLoginPublicKey}
    THEN Ok(account.public_key)
    ELSE Err("InvalidResponse", "Failed to parse public key")

\* SquardConnect::get_sender: SuiAddress::from_str(account.address)
GetSender(account) ==
    IF account.address \in {"0xzk", "0xk1"} THEN Ok(account.address)
    ELSE Err("InvalidResponse", "Failed to parse sender")

\* A transaction the caller built, as its bytes.
Tx1 == <<"t", "x", "1">>

\* The signature of keypair k over data under Intent::sui_transaction(), in
\* its text form: one distinct text per key and data.
SignatureOf(k, data) == <<"s", "i", "g", ":">> \o Decimal(k) \o <<":">> \o data

\* Keystore::sign_secure(signer, tx, intent): the signature of the key whose
\* address is the signer, an error when the keystore holds no such key.
SignSecure(store, signer, tx) ==
    IF \E k \in store : PublicBase64(k) = signer
    THEN Ok(SignatureOf(CHOOSE k \in store : PublicBase64(k) = signer, tx))
    ELSE Err("InvalidResponse", "Failed to sign transaction")

\* The proof the caller passes to sign_transaction: the one zk_proof returned
\* for token tok1 and the tuple (testnet, key 1, max epoch 12, r1).
IssuedProof ==
    ZkLoginInputs(Tok1, ZKPPayload(NetworkToString("Testnet"), PublicBase64(1), 12, R1))

\* The (account, max epoch, path, keystore cannot be opened) inputs drawn
\* for sign_transaction: one for each way through it.
SignInputs ==
    {<<ZkAccount, 12, "ks1", FALSE>>,
     <<EphemeralAccount, 12, "ks1", FALSE>>,
     <<EphemeralAccount, 13, "ks1", FALSE>>,
     <<EphemeralAccount, 12, "ks2", FALSE>>,
     <<EphemeralAccount, 12, "ks1", TRUE>>,
     <<BadAccount, 12, "ks1", FALSE>>}

\* SquardConnect::sign_transaction(tx, account, zk_login_inputs, max_epoch, path)
SignTransaction ==
    \E tx \in {Tx1}, input \in SignInputs :
        LET account == input[1]
            me == input[2]
            path == input[3]
            openFails == input[4]
            zk == IssuedProof
            signer == GetSigner(account)
            signature == SignSecure(keystore[path], signer.ok, tx)
            result ==
                IF IsErr(signer) THEN signer
                ELSE IF openFails
                     THEN Err("InvalidResponse", "Failed to create key store")
                ELSE IF IsErr(signature) THEN signature
                ELSE Ok([data |-> tx,
                         tx_signatures |-> <<[inputs |-> zk, max_epoch |-> me,
                                              user_signature |-> signature.ok]>>])
        IN  /\ lastOp' = [name |-> "sign_transaction", tx |-> tx, account |-> account,
                          zk_login_inputs |-> zk, max_epoch |-> me, path |-> path,
                          result |-> result]
            /\ sent' = <<>>
            /\ UNCHANGED <<session, peer, jwt, keystore, urlNonce>>

\* Digests the sponsor oracle returns.
D1 == <<"d", "1">>

D2 == <<"d", "2">>

Digests == {D1, D2}

\* The sponsored transaction bytes the sponsor step returns.
SponsoredBytes == <<"s", "p", ":">> \o Tx1

\* POST /transaction-blocks/sponsor
SponsorResponses ==
    {TransportFailure, Http(500, ErrorBody), Http(200, ErrorBody),
     Http(500, Envelope([digest |-> D1, bytes |-> SponsoredBytes]))}
    \cup {Http(200, Envelope([digest |-> d, bytes |-> SponsoredBytes])) : d \in Digests}

\* POST /transaction-blocks/sponsor/{digest}
SubmitResponses ==
    {TransportFailure, Http(500, ErrorBody)}
    \cup {Http(200, Envelope([digest |-> d])) : d \in Digests}

\* Services::create_sponsor_transaction: the request it sends.
SponsorRequest(tx, sender, resp) ==
    [endpoint |-> "CreateSponsorTransaction", auth |-> api_key,
     body |-> [network |-> NetworkToString(network), tx_bytes |-> tx,
               sender |-> sender, allowed_addresses |-> <<>>,
               allowed_move_call_targets |-> <<>>],
     response |-> resp]

\* The submit request with its two arguments taken for each other.
SubmitRequestSwapped(digest, signature, resp) ==
    [endpoint |-> "SubmitSponsorTransaction", digest |-> signature, auth |-> api_key,
     body |-> [signature |-> digest], response |-> resp]

\* Services::submit_sponsor_transaction(digest, signature): the request it
\* sends, addressed by the digest (EnokiEndpoints::SubmitSponsorTransaction(digest)).
SubmitRequest(digest, signature, resp) ==
    [endpoint |-> "SubmitSponsorTransaction", digest |-> digest, auth |-> api_key,
     body |-> [signature |-> signature], response |-> resp]

\* SquardConnect::sponsor_transaction(tx, account, allowed_addresses,
\* allowed_move_call_targets): get_sender, the sponsor request, and, only
\* after its payload was parsed, the submit request.
SponsorTransaction ==
    \E tx \in {Tx1}, account \in {ZkAccount, BadAccount} :
        LET sender == GetSender(account)
            call == [name |-> "sponsor_transaction", tx |-> tx, account |-> account]
        IN  /\ UNCHANGED <<session, peer, jwt, keystore, urlNonce>>
            /\ IF IsErr(sender)
               THEN /\ lastOp' = [name |-> call.name, tx |-> tx, account |-> account,
                                  result |-> sender]
                    /\ sent' = <<>>
               ELSE IF ~HeaderValid(api_key)
               THEN /\ lastOp' = [name |-> call.name, tx |-> tx, account |-> account,
                                  result |-> Panic]
                    /\ sent' = <<>>
               ELSE \E resp1 \in SponsorResponses :
                    LET sponsored == HandleResponse(resp1)
                        req1 == SponsorRequest(tx, sender.ok, resp1)
                    IN  IF IsErr(sponsored)
                        THEN /\ lastOp' = [name |-> call.name, tx |-> tx, account |-> account,
                                           result |-> sponsored]
                             /\ sent' = SendOnce(req1)
                        ELSE \E resp2 \in SubmitResponses :
                             LET submitted == HandleResponse(resp2)
                                 req2 == SubmitRequest(sponsored.ok.digest,
                                                       sponsored.ok.bytes, resp2)
                             IN  /\ sent' = SendOnce(req1) \o SendOnce(req2)
                                 /\ lastOp' = [name |-> call.name, tx |-> tx,
                                               account |-> account,
                                               result |-> IF IsErr(submitted) THEN submitted
                                                          ELSE Ok(submitted.ok.digest)]

\* The inputs the session machine draws for the URL builder and the parsers.
CoreStates == {None, Some(Abc)}

CoreCallbacks ==
    {FragmentCallback(LocalCb, Tok1, Abc),
     QueryCallback(LocalCb, Tok1, FormEncode(JsonToString(Abc)))}

GetOauthUrlOp == GetOauthUrlFor({LocalCb}, CoreStates)

ExtractJwtOp == ExtractJwtFor(CoreCallbacks)

ExtractStateOp == ExtractStateFor(CoreCallbacks)

Next ==
    \/ CreateZkpPayload
    \/ SetZkProofParams
    \/ GetZkProofParams
    \/ GetOauthUrlOp
    \/ ExtractJwtOp
    \/ ExtractStateOp
    \/ SetJwt
    \/ ZkProof
    \/ RecoverSeedAddress
    \/ GetAccount
    \/ GetAddress
    \/ SignTransaction
    \/ SponsorTransaction

Spec == Init /\ [][Next]_vars

(***************************************************************************)
(* The URL builder and the callback parsers on a wider set of inputs       *)
(***************************************************************************)

AllStates == {None} \cup {Some(v) : v \in StateValues}

\* A token as it arrives percent-encoded: t%0A decodes to "t" and a line feed.
TokEncodedLf == <<"t", "%", "0", "A">>

CallbackTokens == {Tok1, TokEncodedLf}

\* The state parameter as get_oauth_url writes it for caller value v.
SerializedState(v) == FormEncode(JsonToString(v))

\* State parameters of callbacks: a bare abc, and serialized caller values.
CallbackStates == {Abc} \cup {SerializedState(v) : v \in StateValues}

AllCallbacks ==
    {FragmentCallback(r, t, st) : r \in RedirectUrls, t \in CallbackTokens, st \in CallbackStates}
    \cup {QueryCallback(LocalCb, t, st) : t \in CallbackTokens, st \in CallbackStates}
    \cup {FragmentCallbackNoState(r, t) : r \in RedirectUrls, t \in CallbackTokens}
    \cup {QueryCallbackNoState(LocalCb, t) : t \in CallbackTokens}
    \cup {FragmentCallbackNoToken(r, st) : r \in RedirectUrls, st \in CallbackStates}
    \cup {QueryCallbackNoToken(LocalCb, st) : st \in CallbackStates}
    \cup {LocalCb, SchemelessCallback}

GetOauthUrlAny == GetOauthUrlFor(RedirectUrls, AllStates)

ExtractJwtAny == ExtractJwtFor(AllCallbacks)

ExtractStateAny == ExtractStateFor(AllCallbacks)

NextUrl ==
    \/ CreateZkpPayload
    \/ GetOauthUrlAny
    \/ ExtractJwtAny
    \/ ExtractStateAny

SpecUrl == Init /\ [][NextUrl]_vars

(***************************************************************************)
(* Two sessions: the first runs its operations as above, the second is a   *)
(* clone or a session of its own, and its create_zkp_payload is followed   *)
(* step by step, as a second thread runs it                                *)
(***************************************************************************)

\* The names under which the second session's steps are recorded.
PeerOps ==
    {"peer.clone", "peer.set_zk_proof_params", "peer.create_zkp_payload.open",
     "peer.create_zkp_payload.add_key", "peer.create_zkp_payload.request",
     "peer.sign_transaction"}

\* #[derive(Clone)] on Services: the second session starts as a copy of the
\* first one's fields.
PeerClone ==
    /\ peer.pc = "idle"
    /\ ~peer.stored
    /\ peer' = [peer EXCEPT !.randomness = randomness, !.public_key = public_key,
                            !.max_epoch = max_epoch, !.nonce = nonce]
    /\ lastOp' = [name |-> "peer.clone"]
    /\ sent' = <<>>
    /\ UNCHANGED <<session, jwt, keystore, urlNonce>>

\* Services::set_zk_proof_params on the second session.
PeerSetZkProofParams ==
    \E args \in SetParamsInputs :
        /\ peer.pc = "idle"
        /\ peer' = [peer EXCEPT !.randomness = args[1], !.public_key = args[2],
                                !.max_epoch = args[3]]
        /\ lastOp' = [name |-> "peer.set_zk_proof_params", randomness |-> args[1],
                      public_key |-> args[2], max_epoch |-> args[3]]
        /\ sent' = <<>>
        /\ UNCHANGED <<session, jwt, keystore, urlNonce>>

\* create_zkp_payload of the second session, first step:
\* FileBasedKeystore::new(&path) reads the keys of the file into memory.
PeerOpenKeystore ==
    \E path \in Paths :
        /\ peer.pc = "idle"
        /\ ~peer.stored
        /\ peer' = [peer EXCEPT !.pc = "opened", !.path = path, !.loaded = keystore[path]]
        /\ lastOp' = [name |-> "peer.create_zkp_payload.open", path |-> path]
        /\ sent' = <<>>
        /\ UNCHANGED <<session, jwt, keystore, urlNonce>>

\* Second step: key_store.add_key inserts the pair into the keys in memory
\* and saves them, all of them, to the file.
PeerAddKey ==
    /\ peer.pc = "opened"
    /\ keystore' = [keystore EXCEPT ![peer.path] = peer.loaded \cup {PeerKey}]
    /\ peer' = [peer EXCEPT !.pc = "added", !.stored = TRUE]
    /\ lastOp' = [name |-> "peer.create_zkp_payload.add_key", path |-> peer.path]
    /\ sent' = <<>>
    /\ UNCHANGED <<session, jwt, urlNonce>>

\* Last step: the nonce request and, on success, the four assignments.
PeerRequestNonce ==
    /\ peer.pc = "added"
    /\ UNCHANGED <<session, jwt, keystore, urlNonce>>
    /\ LET pk == EphemeralPublicKey(PeerKey)
           body == NoncePayload(NetworkToString(network), pk, AdditionalEpochs)
           name == "peer.create_zkp_payload.request"
       IN  IF ~HeaderValid(api_key)
           THEN /\ lastOp' = [name |-> name, result |-> Panic]
                /\ sent' = <<>>
                /\ peer' = [peer EXCEPT !.pc = "idle"]
           ELSE \E resp \in NonceResponses(body) :
                /\ sent' = SendOnce(NonceRequest(body, resp))
                /\ IF IsTransportFailure(resp)
                   THEN /\ lastOp' = [name |-> name,
                                      result |-> Err("Network", "Failed to send request")]
                        /\ peer' = [peer EXCEPT !.pc = "idle"]
                   ELSE IF ~ParsesAsEnvelope(resp.body)
                   THEN /\ lastOp' = [name |-> name,
                                      result |-> Err("JwtFormat", "Failed json parse")]
                        /\ peer' = [peer EXCEPT !.pc = "idle"]
                   ELSE /\ lastOp' = [name |-> name, result |-> Ok("unit")]
                        /\ peer' = [peer EXCEPT !.pc = "idle",
                                                !.randomness = resp.body.data.randomness,
                                                !.public_key = pk,
                                                !.max_epoch = resp.body.data.max_epoch,
                                                !.nonce = resp.body.data.nonce]

\* sign_transaction of the second session, for the account of its own key
\* and the keystore path it created it at.
PeerSignTransaction ==
    /\ peer.pc = "idle"
    /\ peer.stored
    /\ lastOp' = [name |-> "peer.sign_transaction", path |-> peer.path,
                  result |-> SignSecure(keystore[peer.path], PublicBase64(PeerKey), Tx1)]
    /\ sent' = <<>>
    /\ UNCHANGED <<session, jwt, keystore, urlNonce, peer>>

NextTwo ==
    \/ CreateZkpPayload
    \/ SignTransaction
    \/ PeerClone
    \/ PeerSetZkProofParams
    \/ PeerOpenKeystore
    \/ PeerAddKey
    \/ PeerRequestNonce
    \/ PeerSignTransaction

SpecTwo == Init /\ [][NextTwo]_vars

(***************************************************************************)
(* Properties                                                              *)
(***************************************************************************)

\* The last operation was a proof request that reached the oracle.
ProofRequestSent ==
    /\ lastOp.name \in {"zk_proof", "recover_seed_address"}
    /\ Len(sent) = 1

\* C1: the tuple zk_proof sends to the proof oracle is the tuple from which
\* the nonce of the authorization URL was computed. Stated for the sessions
\* whose last URL carried an issued nonce that is still the session's nonce:
\* the nonce of that URL is the commitment of the submitted (ephemeral public
\* key, max epoch, randomness), and the submitted network is the session's.
C1_ProofTupleIsUrlNonceTuple ==
    (/\ ProofRequestSent
     /\ IsSome(urlNonce)
     /\ nonce # EmptyStr
     /\ urlNonce.some = nonce)
    => /\ sent[1].body.network = NetworkToString(network)
       /\ urlNonce.some = Commit(sent[1].body.ephemeral_public_key,
                                 sent[1].body.max_epoch,
                                 sent[1].body.randomness)

\* C2: in every session state that holds a nonce, the nonce is the commitment
\* of the stored (ephemeral public key, max epoch, randomness): the four
\* fields are only ever replaced together.
C2_NonceIsCommitmentOfStoredTuple ==
    nonce # EmptyStr => nonce = Commit(public_key, max_epoch, randomness)

\* C3: get_oauth_url on a session whose nonce is still the empty initial
\* value returns an error, never a URL.
C3_EmptyNonceIsRejected ==
    (lastOp.name = "get_oauth_url" /\ nonce = EmptyStr) => IsErr(lastOp.result)

\* How many of the pairs carry the given name.
CountPairs(pairs, name) == Len(SelectSeq(pairs, LAMBDA p : p[1] = name))

\* C4: every URL get_oauth_url returns carries client_id, response_type =
\* id_token, redirect_uri, scope = openid, each once, and exactly one nonce
\* parameter, whose value is the session's stored nonce.
C4_UrlCarriesRequiredParameters ==
    (lastOp.name = "get_oauth_url" /\ IsOk(lastOp.result))
    => LET pairs == QueryPairs(lastOp.result.ok)
       IN  /\ \A name \in {P_client_id, P_response_type, P_redirect_uri, P_scope, P_nonce} :
                  CountPairs(pairs, name) = 1
           /\ FindPair(pairs, P_client_id) = Some(client_id)
           /\ FindPair(pairs, P_response_type) = Some(P_id_token)
           /\ FindPair(pairs, P_redirect_uri) = Some(lastOp.redirect_url)
           /\ FindPair(pairs, P_scope) = Some(P_openid)
           /\ FindPair(pairs, P_nonce) = Some(nonce)

\* C4's case: a URL built for a session that holds a nonce, from a redirect
\* URL that itself has a nonce parameter, with a caller state.
C4_Witness ==
    /\ lastOp.name = "get_oauth_url"
    /\ IsOk(lastOp.result)
    /\ lastOp.redirect_url = QueryCb
    /\ lastOp.state = Some(Tricky)
    /\ nonce # EmptyStr

\* Whether result r is Ok with exactly the value v.
IsOkWith(r, v) == IsOk(r) /\ r.ok = v

\* C5: extract_jwt_from_callback returns exactly T for a callback URL formed
\* by appending #id_token=T&state=S to a redirect URL, and a JwtExtraction
\* error for a callback URL with no id_token parameter.
C5_ExtractJwtIsLeftInverse ==
    lastOp.name = "extract_jwt_from_callback"
    => /\ \A r \in RedirectUrls, t \in CallbackTokens, st \in CallbackStates :
              lastOp.callback_url = FragmentCallback(r, t, st)
              => IsOkWith(lastOp.result, t)
       /\ \A r \in RedirectUrls, st \in CallbackStates :
              lastOp.callback_url \in {FragmentCallbackNoToken(r, st), LocalCb}
              => IsErrOf(lastOp.result, "JwtExtraction")

\* C6: a caller value v serialized into the state parameter the way
\* get_oauth_url does comes back as Some(v) from extract_state_from_callback,
\* for a callback URL that carries that state parameter (in its fragment, as
\* the provider sends it, or in its query).
C6_StateRoundTrips ==
    lastOp.name = "extract_state_from_callback"
    => \A v \in StateValues, t \in CallbackTokens :
           lastOp.callback_url \in {FragmentCallback(LocalCb, t, SerializedState(v)),
                                    QueryCallback(LocalCb, t, SerializedState(v))}
           => IsOkWith(lastOp.result, Some(v))

\* C7: extract_state_from_callback returns None, never an error, for a
\* callback URL with no state parameter, and a JwtExtraction error for one
\* whose state parameter does not deserialize into the caller's type.
C7_AbsentStateIsNoneBadStateIsError ==
    lastOp.name = "extract_state_from_callback"
    => /\ \A r \in RedirectUrls, t \in CallbackTokens :
              lastOp.callback_url \in {FragmentCallbackNoState(r, t),
                                       QueryCallbackNoState(LocalCb, t), LocalCb}
              => IsOkWith(lastOp.result, None)
       /\ \A t \in CallbackTokens :
              lastOp.callback_url \in {FragmentCallback(LocalCb, t, Abc),
                                       QueryCallback(LocalCb, t, Abc)}
              => IsErrOf(lastOp.result, "JwtExtraction")

N1 == <<"n", "1">>

T_nonce_n1 == P_nonce \o <<"=">> \o N1

T_state_abc == P_state \o <<"=">> \o Abc

\* C8: after the oracle answered nonce n1, randomness r1, epoch 10, max
\* epoch 12, get_oauth_url("http://localhost/cb", Some("abc")) returns a URL
\* containing nonce=n1 and state=abc, and the callback
\* http://localhost/cb#id_token=tok1&state=abc yields token tok1 and state abc.
C8_EndToEndScenario ==
    /\ (/\ lastOp.name = "get_oauth_url"
        /\ lastOp.redirect_url = LocalCb
        /\ lastOp.state = Some(Abc)
        /\ <<nonce, randomness, max_epoch>> = <<N1, R1, 12>>)
       => /\ IsOk(lastOp.result)
          /\ Contains(lastOp.result.ok, T_nonce_n1)
          /\ Contains(lastOp.result.ok, T_state_abc)
    /\ (/\ lastOp.name = "extract_jwt_from_callback"
        /\ lastOp.callback_url = FragmentCallback(LocalCb, Tok1, Abc))
       => IsOkWith(lastOp.result, Tok1)
    /\ (/\ lastOp.name = "extract_state_from_callback"
        /\ lastOp.callback_url = FragmentCallback(LocalCb, Tok1, Abc))
       => IsOkWith(lastOp.result, Some(Abc))

\* The last operation was a create_zkp_payload that returned Ok.
CreateSucceeded == lastOp.name = "create_zkp_payload" /\ IsOk(lastOp.result)

\* C9: a successful create_zkp_payload sent the nonce endpoint exactly one
\* request, holding (session network, the generated key's public key,
\* additional_epochs = 2); the key is in the keystore at the given path; and
\* the session holds the randomness, max_epoch and nonce of the response
\* together with the public key of that request.
C9_CreateSendsAndStores ==
    CreateSucceeded
    => /\ Len(sent) = 1
       /\ sent[1].endpoint = "Nonce"
       /\ sent[1].body = [network |-> NetworkToString(network),
                          ephemeral_public_key |-> PublicBase64(lastOp.key),
                          additional_epochs |-> 2]
       /\ lastOp.key \in keystore[lastOp.path]
       /\ randomness = sent[1].response.body.data.randomness
       /\ max_epoch = sent[1].response.body.data.max_epoch
       /\ nonce = sent[1].response.body.data.nonce
       /\ public_key = sent[1].body.ephemeral_public_key

\* C9's case: a second create_zkp_payload succeeded, in a later epoch.
C9_Witness ==
    /\ CreateSucceeded
    /\ lastOp.key = 2
    /\ sent[1].response.body.data.epoch = 11

OracleValidated(req) ==
    (~IsTransportFailure(req.response) /\ req.response.status = 200)
    => Commit(req.body.ephemeral_public_key, req.body.max_epoch,
              req.body.randomness) = nonce

\* The stored tuple is no longer the one the session's nonce was issued for.
AlteredSinceIssuance ==
    nonce # EmptyStr /\ Commit(public_key, max_epoch, randomness) # nonce

\* C11: against an oracle that validates the submitted tuple against the
\* nonce it issued, a zk_proof call made after the session's randomness or
\* max_epoch was altered since nonce issuance returns an error, never a proof.
C11_AlteredTupleIsRejected ==
    (ProofRequestSent /\ AlteredSinceIssuance /\ OracleValidated(sent[1]))
    => IsErr(lastOp.result)

\* C11's case: max_epoch was set to 13 after nonce n1 was issued for 12, the
\* proof request went out and the oracle rejected it.
C11_Witness ==
    /\ ProofRequestSent
    /\ nonce = N1
    /\ <<randomness, max_epoch>> = <<R1, 13>>
    /\ sent[1].body.max_epoch = 13
    /\ sent[1].response = Http(500, ErrorBody)
    /\ IsErrOf(lastOp.result, "Network")

\* The last operation was a zk_proof or get_account call whose request went out.
OracleCallAnswered ==
    /\ lastOp.name \in {"zk_proof", "recover_seed_address", "get_account", "get_address"}
    /\ Len(sent) = 1

SponsorRun == lastOp.name = "sponsor_transaction"

\* The response is a success (2xx) whose body is an envelope of {digest, bytes}.
SponsorStepSucceeded(resp) ==
    /\ ~IsTransportFailure(resp)
    /\ resp.status \in 200..299
    /\ "data" \in DOMAIN resp.body
    /\ {"digest", "bytes"} \subseteq DOMAIN resp.body.data

\* The response is a success (2xx) whose body is an envelope of {digest}.
SubmitStepSucceeded(resp) ==
    /\ ~IsTransportFailure(resp)
    /\ resp.status \in 200..299
    /\ "data" \in DOMAIN resp.body
    /\ "digest" \in DOMAIN resp.body.data

\* C13: sponsor_transaction moves only along Unsubmitted -> SponsorRequested
\* -> Sponsored -> Submitted: the first request of a run is the sponsor
\* request, the submit request is issued only after the sponsor request
\* returned success with a parsed {digest, bytes}, a failure at the sponsor
\* step ends the run with an error and no submit request, a failure at the
\* submit step ends the run with an error, and the run returns Ok only after
\* both steps succeeded.
C13_SponsorStateMachine ==
    SponsorRun
    => /\ Len(sent) <= 2
       /\ Len(sent) >= 1 => sent[1].endpoint = "CreateSponsorTransaction"
       /\ \A i \in 1..Len(sent) :
              sent[i].endpoint = "SubmitSponsorTransaction"
              => /\ i = 2
                 /\ sent[1].endpoint = "CreateSponsorTransaction"
                 /\ SponsorStepSucceeded(sent[1].response)
       /\ (Len(sent) >= 1 /\ ~SponsorStepSucceeded(sent[1].response))
          => Len(sent) = 1 /\ IsErr(lastOp.result)
       /\ (Len(sent) = 2 /\ ~SubmitStepSucceeded(sent[2].response))
          => IsErr(lastOp.result)
       /\ IsOk(lastOp.result)
          => /\ Len(sent) = 2
             /\ SponsorStepSucceeded(sent[1].response)
             /\ SubmitStepSucceeded(sent[2].response)

\* C13's case: the sponsor step was answered with a non-success status and a
\* parsable body, and the run ended there with an error.
C13_Witness ==
    /\ SponsorRun
    /\ Len(sent) = 1
    /\ ~IsTransportFailure(sent[1].response)
    /\ sent[1].response.status = 500
    /\ "data" \in DOMAIN sent[1].response.body
    /\ IsErrOf(lastOp.result, "Network")

\* The run reached the submit step.
SubmitStepReached ==
    /\ SponsorRun
    /\ Len(sent) = 2
    /\ sent[2].endpoint = "SubmitSponsorTransaction"

\* C14: in every sponsor_transaction run that reaches the submit step, the
\* digest that addresses the submit request is the digest the sponsor step
\* of the same run returned.
C14_SubmitDigestIsSponsorDigest ==
    SubmitStepReached => sent[2].digest = sent[1].response.body.data.digest

\* C14's case: the sponsor step returned digest d2, the submit request went
\* out, and its response named another digest.
C14_Witness ==
    /\ SubmitStepReached
    /\ sent[1].response.body.data.digest = D2
    /\ sent[2].response = Http(200, Envelope([digest |-> D1]))

\* C15: the finalize step of sponsor_transaction submits, together with the
\* digest, the caller's own signature over the sponsored bytes the sponsor
\* step returned: a signature made with one of the caller's keys over those
\* bytes, not the bytes themselves and not any other value.
C15_SubmitsOwnSignature ==
    SubmitStepReached
    => \E k \in Keys :
           sent[2].body.signature = SignatureOf(k, sent[1].response.body.data.bytes)

\* The last operation was a sign_transaction that returned Ok.
SignSucceeded == lastOp.name = "sign_transaction" /\ IsOk(lastOp.result)

\* C16: whenever sign_transaction returns Ok (on a session that holds an
\* ephemeral public key), the conventional signature inside the credential
\* was produced over the given transaction by the ephemeral keypair
\* create_zkp_payload persisted for this session, the key whose public key is
\* the session's stored one, and the credential wraps exactly the given zk
\* proof, the given max_epoch and that signature.
C16_SignedBySessionKey ==
    (SignSucceeded /\ public_key # EmptyStr)
    => /\ lastOp.result.ok.data = lastOp.tx
       /\ Len(lastOp.result.ok.tx_signatures) = 1
       /\ LET cred == lastOp.result.ok.tx_signatures[1]
          IN  /\ cred.inputs = lastOp.zk_login_inputs
              /\ cred.max_epoch = lastOp.max_epoch
              /\ \E k \in Keys :
                     /\ PublicBase64(k) = public_key
                     /\ \E p \in Paths : k \in keystore[p]
                     /\ cred.user_signature = SignatureOf(k, lastOp.tx)

\* C17: the identity token of a session is set once and is immutable
\* afterward: once a token is stored, no step (a further set_jwt included)
\* changes it.
C17_JwtSetOnce ==
    [][jwt # EmptyStr => jwt' = jwt]_vars

\* How many of the requests of the log went to the given endpoint.
CountSent(endpoint) == Cardinality({i \in 1..Len(sent) : sent[i].endpoint = endpoint})

\* The endpoints the last operation may address.
EndpointsOf(name) ==
    CASE name = "create_zkp_payload" -> {"Nonce"}
      [] name \in {"zk_proof", "recover_seed_address"} -> {"ZkProof"}
      [] name \in {"get_account", "get_address"} -> {"Address"}
      [] name = "sponsor_transaction" -> {"CreateSponsorTransaction",
                                          "SubmitSponsorTransaction"}
      [] OTHER -> {}

\* C18: no step retries: each invocation of create_zkp_payload, zk_proof,
\* get_account and of the two sponsor calls sends at most one request to its
\* endpoint, whether that request succeeds or fails, and one
\* sponsor_transaction sends at most one sponsor request and at most one
\* submit request; no operation sends to another operation's endpoint.
C18_NoRetry ==
    /\ \A i \in 1..Len(sent) : sent[i].endpoint \in EndpointsOf(lastOp.name)
    /\ \A e \in EndpointsOf(lastOp.name) : CountSent(e) <= 1

\* C18's case: a sponsor_transaction whose submit request failed in
\* transport, after a create_zkp_payload-issued session; the run ended with
\* an error after one request to each endpoint.
C18_Witness ==
    /\ SubmitStepReached
    /\ sent[2].response = TransportFailure
    /\ IsErrOf(lastOp.result, "Network")
    /\ nonce # EmptyStr

\* C19: every fallible step ends by returning Ok or a typed ServiceError:
\* no invocation of create_zkp_payload, zk_proof, get_account or the sponsor
\* calls ends in a panic, for every api key, identity token and response.
C19_NoPanic ==
    lastOp.name \in {"create_zkp_payload", "zk_proof", "recover_seed_address",
                     "get_account", "get_address", "sponsor_transaction"}
    => ~IsPanic(lastOp.result)

\* C20: if opening the keystore or adding the ephemeral key to it fails,
\* create_zkp_payload returns an InvalidResponse error, sends no nonce
\* request and does not report success.
C20_KeystoreFailureIsSurfaced ==
    (lastOp.name = "create_zkp_payload" /\ lastOp.store_failure # "no")
    => /\ IsErrOf(lastOp.result, "InvalidResponse")
       /\ ~IsOk(lastOp.result)
       /\ sent = <<>>

\* C20's case: adding the key failed on a session that already holds an
\* issued nonce; the call returned the error and sent nothing.
C20_Witness ==
    /\ lastOp.name = "create_zkp_payload"
    /\ lastOp.store_failure = "add"
    /\ IsErrOf(lastOp.result, "InvalidResponse")
    /\ sent = <<>>
    /\ nonce = N1

\* The texts the session's fields hold.
SessionTexts == {api_key, client_id, randomness, public_key, nonce, jwt}

\* The texts a request carries to the oracle: its credentials and the
\* fields of its body.
RequestTexts(req) ==
    {req.auth}
    \cup (IF "jwt" \in DOMAIN req THEN {req.jwt} ELSE {})
    \cup (IF "digest" \in DOMAIN req THEN {req.digest} ELSE {})
    \cup (IF "body" \notin DOMAIN req THEN {}
          ELSE {req.body[f] : f \in DOMAIN req.body
                                   \cap {"network", "ephemeral_public_key", "randomness",
                                         "tx_bytes", "signature"}})

\* The texts that left the session in the last operation: the requests sent
\* to the oracle and the URL built for the identity provider.
OutgoingTexts ==
    UNION {RequestTexts(sent[i]) : i \in 1..Len(sent)}
    \cup (IF lastOp.name = "get_oauth_url" /\ IsOk(lastOp.result)
          THEN {lastOp.result.ok} ELSE {})

\* C21: the ephemeral private key never leaves the keystore: no session
\* field holds private key material and no request to the oracle or URL for
\* the identity provider contains it; what a successful create_zkp_payload
\* stores in the session and sends is the public key of the generated pair.
C21_PrivateKeyStaysInKeystore ==
    /\ \A k \in Keys, text \in SessionTexts \cup OutgoingTexts :
           ~Contains(text, PrivateBase64(k))
    /\ CreateSucceeded
       => /\ public_key = PublicBase64(lastOp.key)
          /\ sent[1].body.ephemeral_public_key = PublicBase64(lastOp.key)

\* C21's case: the keystore holds the generated pair, the session holds its
\* public key, and a proof request carrying that public key went out.
C21_Witness ==
    /\ ProofRequestSent
    /\ 1 \in keystore["ks1"]
    /\ public_key = PublicBase64(1)
    /\ sent[1].body.ephemeral_public_key = PublicBase64(1)

\* Whether the keystores hold, before and after the step, every keypair
\* they held for the given public key.
StoredKeyKept(pk) ==
    \A p \in Paths, k \in OracleKeys :
        (k \in keystore[p] /\ PublicBase64(k) = pk) => k \in keystore'[p]

\* C22: two sessions share no mutable state: no step of the second session
\* (a clone of the first or a session of its own, at the same keystore path
\* or another) changes the first session's fields, token or stored key, and
\* no step of the first session changes the second session's fields or
\* stored key, under every interleaving.
C22_SessionsShareNoState ==
    [][/\ lastOp'.name \in PeerOps
          => /\ <<network', api_key', client_id', randomness', public_key',
                  max_epoch', nonce', jwt'>>
                = <<network, api_key, client_id, randomness, public_key,
                    max_epoch, nonce, jwt>>
             /\ StoredKeyKept(public_key)
       /\ lastOp'.name \notin PeerOps
          => /\ peer' = peer
             /\ StoredKeyKept(PublicBase64(PeerKey))]_vars

\* The last operation was a create_zkp_payload whose request was answered
\* with a status outside 200..299.
NonceRequestRefused ==
    /\ lastOp.name = "create_zkp_payload"
    /\ Len(sent) = 1
    /\ ~IsTransportFailure(sent[1].response)
    /\ (sent[1].response.status < 200 \/ sent[1].response.status > 299)

\* C23: a non-2xx response of the nonce endpoint makes create_zkp_payload
\* return a Network error that includes the status and the response body,
\* as for every other oracle endpoint.
C23_NonceStatusIsChecked ==
    NonceRequestRefused
    => /\ IsErrOf(lastOp.result, "Network")
       /\ lastOp.result.detail = [status |-> sent[1].response.status,
                                  body |-> sent[1].response.body]

\* C24: every credential sign_transaction produces carries the max_epoch
\* that was bound into the proof by the session's zk_proof request; stated
\* for a proof bound to exactly the tuple the session holds.
C24_CredentialEpochIsProofEpoch ==
    (/\ SignSucceeded
     /\ lastOp.zk_login_inputs.bound_to
            = ZKPPayload(NetworkToString(network), public_key, max_epoch, randomness))
    => \A i \in 1..Len(lastOp.result.ok.tx_signatures) :
           LET cred == lastOp.result.ok.tx_signatures[i]
           IN  cred.max_epoch = cred.inputs.bound_to.max_epoch

\* C25: the epoch window is fixed at current epoch + 2: a successful
\* create_zkp_payload leaves the session with max_epoch equal to the epoch
\* the oracle reported at nonce issuance plus 2, and once a nonce was issued
\* no other operation of the caller changes the session's max_epoch.
C25_EpochWindowIsFixed ==
    [][IF lastOp'.name = "create_zkp_payload" /\ IsOk(lastOp'.result)
       THEN max_epoch' = sent'[1].response.body.data.epoch + 2
       ELSE nonce # EmptyStr => max_epoch' = max_epoch]_vars

\* C26: whenever sponsor_transaction returns Ok(d), d is the digest the
\* sponsor-request step of that run returned: a submit response carrying
\* another digest is not reported as success.
C26_ReturnedDigestIsSponsorDigest ==
    (SponsorRun /\ IsOk(lastOp.result))
    => lastOp.result.ok = sent[1].response.body.data.digest

\* C27: if create_zkp_payload returns an error at any step (keystore,
\* transport, response parsing), the session's randomness, public_key,
\* max_epoch and nonce are what they were before the call; the four fields
\* change only on the success path, and then all in the same step, to the
\* response's values and the public key of the request.
C27_CreateFailureLeavesFields ==
    [][lastOp'.name = "create_zkp_payload"
       => IF IsOk(lastOp'.result)
          THEN /\ randomness' = sent'[1].response.body.data.randomness
               /\ max_epoch' = sent'[1].response.body.data.max_epoch
               /\ nonce' = sent'[1].response.body.data.nonce
               /\ public_key' = sent'[1].body.ephemeral_public_key
          ELSE <<randomness', public_key', max_epoch', nonce'>>
                   = <<randomness, public_key, max_epoch, nonce>>]_vars

\* C27's case: a second create_zkp_payload, whose request was sent for a new
\* key, failed on the response; the session still holds the first tuple.
C27_Witness ==
    /\ lastOp.name = "create_zkp_payload"
    /\ IsErrOf(lastOp.result, "JwtFormat")
    /\ lastOp.key = 2
    /\ Len(sent) = 1
    /\ <<randomness, public_key, max_epoch, nonce>> = <<R1, PublicBase64(1), 12, N1>>

\* The operations that only read the session.
ReadingOps ==
    {"get_oauth_url", "extract_jwt_from_callback", "extract_state_from_callback",
     "zk_proof", "recover_seed_address", "get_account", "get_address",
     "sign_transaction", "sponsor_transaction"}

====
